---- MODULE Spec2Model ----
(***************************************************************************)
(* Model of the WebRTC session hook src/src/hooks/useWebRTC.ts.            *)
(*                                                                         *)
(* Every client of a room runs one instance of the hook.  The state of an  *)
(* instance (its refs and React state, and the state of the transport it   *)
(* currently references) is one record, session[c].  The hook's functions  *)
(* are operators from a session record to a session record, so that a      *)
(* handler that calls several of them is their composition.  Asynchronous  *)
(* functions are cut at their awaits: the part up to the first await runs  *)
(* in the caller's step and leaves a continuation in session[c].procs,     *)
(* which a later step resumes.  inbox[c] holds the room's broadcasts on    *)
(* their way to client c.                                                  *)
(***************************************************************************)
EXTENDS Naturals, Integers, Sequences, FiniteSets, TLC

VARIABLES session, inbox

vars == <<session, inbox>>

\* ------------------------------------------------------------------ bounds
\* transports a client creates, remote candidates it receives, broadcasts in
\* flight to it, continuations it has pending, timers it has pending, media
\* tracks it acquires
MaxPc == 2
MaxCand == 2
MaxInbox == 3
MaxProcs == 2
MaxTimers == 2
MaxTracks == 4

\* --------------------------------------------------------------- universe
Clients == {"A", "B"}
Stranger == "C"
SenderIds == Clients \cup {Stranger}

NoPc == 0
NoTrack == 0
NoTimer == "null"
NoStream == [video |-> NoTrack, audio |-> NoTrack]

RemoveAt(seq, i) == SubSeq(seq, 1, i - 1) \o SubSeq(seq, i + 1, Len(seq))

Min(a, b) == IF a < b THEN a ELSE b

RECURSIVE Pow2(_)
Pow2(n) == IF n = 0 THEN 1 ELSE 2 * Pow2(n - 1)

\* ------------------------------------------------------- the hook's state
\* Refs and React state of the hook (lines 22-51), then the fields of the
\* transport peerConnection.current references, then the runtime (transports
\* created, timers and continuations pending, tracks), then the record of what
\* the last steps did, which only the properties read.  effectStream is the
\* local stream the signaling effect last ran with; sent is the log of the
\* messages the client has sent, kept in the runs that start with logging on.
InitSession ==
    [ peerConnection     |-> NoPc,
      channel            |-> FALSE,
      pendingCandidates  |-> << >>,
      cameraStream       |-> NoStream,
      screenStream       |-> NoTrack,
      localStream        |-> NoStream,
      remoteStream       |-> FALSE,
      isScreenSharing    |-> FALSE,
      statsInterval      |-> FALSE,
      makingOffer        |-> FALSE,
      ignoreOffer        |-> FALSE,
      reconnectAttempts  |-> 0,
      reconnectTimeout   |-> NoTimer,
      disconnectTimeout  |-> NoTimer,
      remotePeerId       |-> "null",
      connectionState    |-> "new",
      iceConnectionState |-> "new",
      effectStream       |-> NoStream,
      connectionQuality  |-> [bitrate |-> 0, packetLoss |-> 0, rtt |-> 0,
                              quality |-> "connecting"],
      \* the current transport
      signalingState     |-> "closed",
      localDescription   |-> "none",
      remoteDescription  |-> "none",
      pcConnectionState  |-> "closed",
      pcIceState         |-> "closed",
      added              |-> << >>,
      senders            |-> << >>,
      iceRestart         |-> FALSE,
      negotiationFired   |-> FALSE,
      gathered           |-> 0,
      \* the runtime
      pcCount            |-> 0,
      openPcs            |-> {},
      timers             |-> << >>,
      procs              |-> << >>,
      trackCount         |-> 0,
      enabled            |-> {},
      stopped            |-> {},
      screens            |-> {},
      out                |-> << >>,
      \* what the last steps did
      resets             |-> 0,
      resetDue           |-> FALSE,
      seenPeer           |-> "null",
      received           |-> << >>,
      buffered           |-> << >>,
      failedRun          |-> 0,
      shareBase          |-> NoStream,
      answerDropped      |-> FALSE,
      logging            |-> FALSE,
      sent               |-> {} ]

Msg(type, from, data) == [type |-> type, from |-> from, data |-> data]

Proc(op, pos, pc, data) ==
    [op |-> op, pos |-> pos, pc |-> pc, data |-> data, queue |-> << >>, idx |-> 0]

Spawn(s, p) == [s EXCEPT !.procs = Append(@, p)]

Finish(s, i) == [s EXCEPT !.procs = RemoveAt(@, i)]

Move(s, i, pos) == [s EXCEPT !.procs[i].pos = pos]

\* channel.current.send(...) under if (channel.current)
Send(s, type, from, data) ==
    IF s.channel THEN [s EXCEPT !.out = Append(@, Msg(type, from, data))] ELSE s

\* --------------------------------------------------------------------- timers
\* A pending timer is its callback (kind, and the transport pc the callback
\* closes over), its delay, and the ref that holds its handle, "none" once the
\* ref has been given another handle.  A ref is null, or holds the handle of a
\* timer that is pending or of one that has expired.
Timer(kind, pc, delay, young, ref) ==
    [kind |-> kind, pc |-> pc, delay |-> delay, young |-> young, ref |-> ref]

Ref(s, ref) == IF ref = "reconnectTimeout" THEN s.reconnectTimeout ELSE s.disconnectTimeout

SetRef(s, ref, h) ==
    IF ref = "reconnectTimeout" THEN [s EXCEPT !.reconnectTimeout = h]
    ELSE [s EXCEPT !.disconnectTimeout = h]

\* clearTimeout(ref.current); ref.current = null
ClearTimeout(s, ref) ==
    LET Others(t) == t.ref # ref IN
    SetRef([s EXCEPT !.timers = SelectSeq(@, Others)], ref, NoTimer)

\* -------------------------------------------------------------------- senders
HasVideo(snd) == snd.kind = "video" /\ snd.track # NoTrack

\* getSenders().find(s => s.track?.kind === 'video')
VideoSender(s) ==
    IF \E i \in 1..Len(s.senders) : HasVideo(s.senders[i])
    THEN CHOOSE i \in 1..Len(s.senders) :
            /\ HasVideo(s.senders[i])
            /\ \A j \in 1..(i - 1) : ~HasVideo(s.senders[j])
    ELSE 0

\* pc.addTrack: a sender of the kind that carries no track and has never sent
\* is used again, otherwise the transport gets a new sender
AddTrack(s, kind, track) ==
    LET free == {i \in 1..Len(s.senders) :
                    /\ s.senders[i].kind = kind
                    /\ s.senders[i].track = NoTrack
                    /\ ~s.senders[i].used}
    IN  IF free # {}
        THEN LET i == CHOOSE i \in free : \A j \in free : i <= j
             IN  [s EXCEPT !.senders[i].track = track]
        ELSE [s EXCEPT !.senders = Append(@, [kind |-> kind, track |-> track, used |-> FALSE])]

AddStream(s, stream) ==
    LET s1 == IF stream.video # NoTrack THEN AddTrack(s, "video", stream.video) ELSE s
    IN  IF stream.audio # NoTrack THEN AddTrack(s1, "audio", stream.audio) ELSE s1

\* existingSenders.forEach(sender => { if (sender.track) pc.removeTrack(sender) })
RemoveTracks(s) ==
    [s EXCEPT !.senders = [i \in 1..Len(s.senders) |-> [s.senders[i] EXCEPT !.track = NoTrack]]]

\* applying a remote offer gives the transport a sender without a track for each
\* media kind it has no sender for
AddRecvSenders(s) ==
    LET need(kind) == \A i \in 1..Len(s.senders) : s.senders[i].kind # kind
        s1 == IF need("video")
              THEN [s EXCEPT !.senders = Append(@, [kind |-> "video", track |-> NoTrack, used |-> FALSE])]
              ELSE s
    IN  IF need("audio")
        THEN [s1 EXCEPT !.senders = Append(@, [kind |-> "audio", track |-> NoTrack, used |-> FALSE])]
        ELSE s1

\* an offer/answer exchange has completed: the senders that carry a track send
MarkSending(s) ==
    [s EXCEPT !.senders = [i \in 1..Len(s.senders) |->
        [s.senders[i] EXCEPT !.used = @ \/ s.senders[i].track # NoTrack]]]

\* ------------------------------------------------------ createPeerConnection
CreatePeerConnection(s) ==
    LET id == s.pcCount + 1 IN
    [s EXCEPT !.peerConnection = id,
              !.pcCount = id,
              !.openPcs = @ \cup {id},
              !.signalingState = "stable",
              !.localDescription = "none",
              !.remoteDescription = "none",
              !.pcConnectionState = "new",
              !.pcIceState = "new",
              !.added = << >>,
              !.senders = << >>,
              !.iceRestart = FALSE,
              !.negotiationFired = FALSE,
              !.gathered = 0,
              !.failedRun = 0]

\* pc.close(); peerConnection.current = null.  An operation awaited on the
\* closed transport is rejected or never settles, and what the function would
\* do after it (const pc is the closed transport) does not run: its catch
\* block only logs.  getStats still settles on a closed transport.
ClosePeerConnection(s) ==
    LET Survives(p) == p.pc # s.peerConnection \/ p.op = "monitorConnectionQuality" IN
    [s EXCEPT !.openPcs = @ \ {s.peerConnection},
              !.procs = SelectSeq(@, Survives),
              !.peerConnection = NoPc,
              !.signalingState = "closed",
              !.localDescription = "none",
              !.remoteDescription = "none",
              !.pcConnectionState = "closed",
              !.pcIceState = "closed",
              !.added = << >>,
              !.senders = << >>,
              !.iceRestart = FALSE,
              !.negotiationFired = FALSE,
              !.gathered = 0]

\* ------------------------------------------------------------- createOffer
CreateOffer(s) ==
    IF s.peerConnection = NoPc THEN s
    ELSE Spawn(s, Proc("createOffer", "createOffer", s.peerConnection, 0))

\* -------------------------------------------------------------- handleOffer
OfferCollision(s) == s.signalingState # "stable" \/ s.makingOffer

\* a collision answered with an offer of the client's own
HandleOfferRetry(s, offer) ==
    LET s1 == IF s.peerConnection = NoPc THEN CreatePeerConnection(s) ELSE s
        s2 == [s1 EXCEPT !.ignoreOffer = OfferCollision(s1)]
    IN  IF s2.ignoreOffer THEN CreateOffer(s2)
        ELSE Spawn(s2, Proc("handleOffer", "setRemote", s2.peerConnection, offer))

HandleOffer(s, offer) ==
    LET s1 == IF s.peerConnection = NoPc THEN CreatePeerConnection(s) ELSE s
        s2 == [s1 EXCEPT !.ignoreOffer = OfferCollision(s1)]
    IN  IF s2.ignoreOffer THEN s2
        ELSE Spawn(s2, Proc("handleOffer", "setRemote", s2.peerConnection, offer))

\* ------------------------------------------------------------- handleAnswer
HandleAnswer(s, answer) ==
    IF s.peerConnection = NoPc THEN [s EXCEPT !.answerDropped = TRUE]
    ELSE Spawn([s EXCEPT !.answerDropped = FALSE],
               Proc("handleAnswer", "setRemote", s.peerConnection, answer))

\* ------------------------------------------------------- handleIceCandidate
\* pc.addIceCandidate: a malformed candidate is rejected, any other is handed
\* to the transport
AddIceCandidate(s, cand) ==
    IF cand.bad THEN s ELSE [s EXCEPT !.added = Append(@, cand.n)]

HandleIceCandidate(s, cand) ==
    IF s.peerConnection = NoPc THEN s
    ELSE IF s.remoteDescription # "none" THEN AddIceCandidate(s, cand)
    ELSE [s EXCEPT !.pendingCandidates = Append(@, cand),
                   !.buffered = Append(@, cand)]

\* ------------------------------------------------------- resetPeerConnection
ResetPeerConnection(s) ==
    LET s1 == [s EXCEPT !.remoteStream = FALSE, !.pendingCandidates = << >>,
                        !.buffered = << >>]
        s2 == IF s1.peerConnection # NoPc THEN ClosePeerConnection(s1) ELSE s1
        s3 == [s2 EXCEPT !.makingOffer = FALSE,
                         !.ignoreOffer = FALSE,
                         !.reconnectAttempts = 0]
        s4 == IF s3.reconnectTimeout # NoTimer
              THEN ClearTimeout(s3, "reconnectTimeout")
              ELSE s3
        s5 == IF s4.disconnectTimeout # NoTimer
              THEN ClearTimeout(s4, "disconnectTimeout")
              ELSE s4
        s6 == [s5 EXCEPT !.resets = @ + 1]
    IN  IF s6.localStream # NoStream
        THEN AddStream(CreatePeerConnection(s6), s6.localStream)
        ELSE s6

\* ------------------------------------- the signaling effect's message handler
PeerDetection(s, m) ==
    IF m.type \in {"ready", "offer"}
    THEN LET s1 == IF s.remotePeerId # "null" /\ s.remotePeerId # m.from
                       THEN ResetPeerConnection(s)
                   ELSE IF s.remotePeerId = m.from /\ m.type = "ready"
                       THEN ResetPeerConnection(s)
                   ELSE s
             s2 == [s1 EXCEPT !.remotePeerId = m.from, !.seenPeer = m.from]
         IN  IF s2.disconnectTimeout # NoTimer
             THEN ClearTimeout(s2, "disconnectTimeout")
             ELSE s2
    ELSE s

\* an offer for every ready, whatever the signaling state
ReadyMayOfferAlways(s) == TRUE

\* if (peerConnection.current.signalingState === 'stable')
ReadyMayOffer(s) == s.signalingState = "stable"

Dispatch(s, m) ==
    CASE m.type = "offer" -> HandleOffer(s, m.data)
      [] m.type = "answer" -> HandleAnswer(s, m.data)
      [] m.type = "ice-candidate" -> HandleIceCandidate(s, m.data)
      [] m.type = "ready" ->
            IF s.peerConnection # NoPc /\ ReadyMayOffer(s) THEN CreateOffer(s) ELSE s
      [] OTHER -> s

\* the message is a ready of the sender seen last, or a ready or an offer of
\* another sender than the one seen last
Rejoins(s, m) ==
    \/ m.type = "ready" /\ s.seenPeer = m.from
    \/ m.type \in {"ready", "offer"} /\ s.seenPeer \notin {"null", m.from}

OnSignal(s, self, m) ==
    IF m.from = self THEN s
    ELSE Dispatch(PeerDetection([s EXCEPT !.resets = 0,
                                          !.resetDue = Rejoins(s, m),
                                          !.received = IF m.type = "ice-candidate"
                                                       THEN Append(@, m.data)
                                                       ELSE @], m), m)

\* ------------------------------------------------ continuations of the awaits
\* for (const candidate of pendingCandidates.current) await pc.addIceCandidate
\* followed by pendingCandidates.current = []
StartFlush(s, i, next) ==
    IF Len(s.pendingCandidates) > 0
    THEN [s EXCEPT !.procs[i].pos = "flush",
                   !.procs[i].queue = s.pendingCandidates,
                   !.procs[i].idx = 1]
    ELSE IF next = "done" THEN Finish(s, i) ELSE Move(s, i, next)

FlushStep(s, i, next) ==
    LET p == s.procs[i]
        cand == p.queue[p.idx]
    IN  IF cand.bad THEN Finish(s, i)
        ELSE LET s1 == AddIceCandidate(s, cand) IN
             IF p.idx < Len(p.queue)
             THEN [s1 EXCEPT !.procs[i].idx = @ + 1]
             ELSE LET s2 == [s1 EXCEPT !.pendingCandidates = << >>] IN
                  IF next = "done" THEN Finish(s2, i) ELSE Move(s2, i, next)

\* createOffer after await pc.createOffer() and after await setLocalDescription
CreateOfferStep(s, self, i) ==
    LET p == s.procs[i] IN
    CASE p.pos = "createOffer" -> Move(s, i, "setLocal")
      [] p.pos = "setLocal" ->
            IF s.signalingState \in {"stable", "have-local-offer"}
            THEN Finish(Send([s EXCEPT !.signalingState = "have-local-offer",
                                       !.localDescription = "offer"],
                             "offer", self, p.pc), i)
            ELSE Finish(s, i)

\* handleOffer without the loop over pendingCandidates
HandleOfferStepUnflushed(s, self, i, rollback) ==
    LET p == s.procs[i] IN
    CASE p.pos = "setRemote" ->
            IF s.signalingState \in {"stable", "have-remote-offer"}
               \/ (s.signalingState = "have-local-offer" /\ rollback)
            THEN Move(AddRecvSenders(
                          [s EXCEPT !.signalingState = "have-remote-offer",
                                    !.remoteDescription = "offer",
                                    !.localDescription =
                                        IF s.signalingState = "have-local-offer"
                                        THEN "none" ELSE @]),
                      i, "createAnswer")
            ELSE Finish(s, i)
      [] p.pos = "flush" -> FlushStep(s, i, "createAnswer")
      [] p.pos = "createAnswer" ->
            IF s.signalingState = "have-remote-offer"
            THEN Move(s, i, "setLocal") ELSE Finish(s, i)
      [] p.pos = "setLocal" ->
            IF s.signalingState = "have-remote-offer"
            THEN Finish(Send(MarkSending([s EXCEPT !.signalingState = "stable",
                                                   !.localDescription = "answer"]),
                             "answer", self, p.data), i)
            ELSE Finish(s, i)

\* handleOffer after each of its awaits.  rollback: whether the transport rolls
\* a pending local offer back when a remote offer is applied to it.  A remote
\* offer is applied in stable and over a remote offer already applied
HandleOfferStep(s, self, i, rollback) ==
    LET p == s.procs[i] IN
    CASE p.pos = "setRemote" ->
            IF s.signalingState \in {"stable", "have-remote-offer"}
               \/ (s.signalingState = "have-local-offer" /\ rollback)
            THEN StartFlush(AddRecvSenders(
                                [s EXCEPT !.signalingState = "have-remote-offer",
                                          !.remoteDescription = "offer",
                                          !.localDescription =
                                              IF s.signalingState = "have-local-offer"
                                              THEN "none" ELSE @]),
                            i, "createAnswer")
            ELSE Finish(s, i)
      [] p.pos = "flush" -> FlushStep(s, i, "createAnswer")
      [] p.pos = "createAnswer" ->
            IF s.signalingState = "have-remote-offer"
            THEN Move(s, i, "setLocal") ELSE Finish(s, i)
      [] p.pos = "setLocal" ->
            IF s.signalingState = "have-remote-offer"
            THEN Finish(Send(MarkSending([s EXCEPT !.signalingState = "stable",
                                                   !.localDescription = "answer"]),
                             "answer", self, p.data), i)
            ELSE Finish(s, i)

\* an answer applied whatever the signaling state
HandleAnswerStepAny(s, i) ==
    LET p == s.procs[i] IN
    CASE p.pos = "setRemote" ->
            StartFlush(MarkSending([s EXCEPT !.signalingState = "stable",
                                             !.remoteDescription = "answer"]),
                       i, "done")
      [] p.pos = "flush" -> FlushStep(s, i, "done")

\* handleAnswer after each of its awaits; the transport rejects an answer
\* unless a local offer is outstanding, and the catch block logs the rejection
HandleAnswerStep(s, i) ==
    LET p == s.procs[i] IN
    CASE p.pos = "setRemote" ->
            IF s.signalingState = "have-local-offer"
            THEN StartFlush(MarkSending([s EXCEPT !.signalingState = "stable",
                                                  !.remoteDescription = "answer"]),
                            i, "done")
            ELSE Finish([s EXCEPT !.answerDropped = TRUE], i)
      [] p.pos = "flush" -> FlushStep(s, i, "done")

\* ------------------------------------------------------------ the local media
\* startLocalStream after await requestMediaDevicesMobile()
StartLocalStreamStep(s, self, i) ==
    LET v == s.trackCount + 1
        a == s.trackCount + 2
        stream == [video |-> v, audio |-> a]
        s1 == [s EXCEPT !.trackCount = a,
                        !.enabled = @ \cup {v, a},
                        !.cameraStream = stream,
                        !.localStream = stream,
                        !.shareBase = NoStream]
        s2 == IF s1.peerConnection = NoPc THEN CreatePeerConnection(s1) ELSE s1
        s3 == AddStream(RemoveTracks(s2), stream)
    IN  Finish(Send(s3, "ready", self, 0), i)

Flip(set, x) == IF x \in set THEN set \ {x} ELSE set \cup {x}

\* toggleAudio, toggleVideo
ToggleAudio(s) ==
    IF s.localStream # NoStream /\ s.localStream.audio # NoTrack
    THEN [s EXCEPT !.enabled = Flip(@, s.localStream.audio)] ELSE s

\* video switched off by ending the track
ToggleVideoStop(s) ==
    IF s.localStream # NoStream /\ s.localStream.video # NoTrack
    THEN [s EXCEPT !.enabled = Flip(@, s.localStream.video),
                   !.stopped = @ \cup {s.localStream.video}] ELSE s

ToggleVideo(s) ==
    IF s.localStream # NoStream /\ s.localStream.video # NoTrack
    THEN [s EXCEPT !.enabled = Flip(@, s.localStream.video)] ELSE s

SenderTrack(s, kind) ==
    {s.senders[i].track : i \in {j \in 1..Len(s.senders) :
                                    s.senders[j].kind = kind /\ s.senders[j].track # NoTrack}}

\* startScreenShare up to await getDisplayMedia
StartScreenShare(s) ==
    IF s.peerConnection = NoPc \/ s.cameraStream = NoStream THEN s
    ELSE Spawn([s EXCEPT !.shareBase =
                    IF s.isScreenSharing THEN @
                    ELSE [video |-> IF VideoSender(s) = 0 THEN NoTrack
                                    ELSE s.senders[VideoSender(s)].track,
                          audio |-> IF SenderTrack(s, "audio") = {} THEN NoTrack
                                    ELSE CHOOSE a \in SenderTrack(s, "audio") : TRUE]],
               Proc("startScreenShare", "getDisplayMedia", NoPc, s.localStream.audio))

\* startScreenShare after await getDisplayMedia (granted: the user picked a
\* screen) and after await videoSender.replaceTrack
StartScreenShareStep(s, i, granted) ==
    LET p == s.procs[i] IN
    CASE p.pos = "getDisplayMedia" ->
            IF ~granted THEN Finish(s, i)
            ELSE LET screenTrack == s.trackCount + 1
                     s1 == [s EXCEPT !.trackCount = screenTrack,
                                     !.enabled = @ \cup {screenTrack}]
                 IN  IF s1.peerConnection = NoPc THEN Finish(s1, i)
                     ELSE IF VideoSender(s1) = 0
                     THEN Finish([s1 EXCEPT !.stopped = @ \cup {screenTrack}], i)
                     ELSE [s1 EXCEPT !.procs[i].pos = "replaceTrack",
                                     !.procs[i].pc = s1.peerConnection,
                                     !.procs[i].idx = VideoSender(s1),
                                     !.procs[i].queue = <<screenTrack>>]
      [] p.pos = "replaceTrack" ->
            Finish([s EXCEPT !.senders[p.idx].track = p.queue[1],
                             !.localStream = [video |-> p.queue[1], audio |-> p.data],
                             !.screenStream = p.queue[1],
                             !.isScreenSharing = TRUE,
                             !.screens = @ \cup {p.queue[1]}], i)

\* stopScreenShare up to await videoSender.replaceTrack
StopScreenShare(s) ==
    IF s.peerConnection = NoPc \/ s.cameraStream = NoStream THEN s
    ELSE LET s1 == IF s.screenStream # NoTrack
                   THEN [s EXCEPT !.stopped = @ \cup {s.screenStream}] ELSE s
             s2 == [s1 EXCEPT !.enabled = @ \cup {s.cameraStream.video}]
         IN  IF VideoSender(s2) # 0
             THEN Spawn(s2, [Proc("stopScreenShare", "replaceTrack", s2.peerConnection,
                                  s2.cameraStream.video)
                                EXCEPT !.idx = VideoSender(s2)])
             ELSE [s2 EXCEPT !.localStream = s2.cameraStream,
                             !.screenStream = NoTrack,
                             !.isScreenSharing = FALSE]

\* the camera shown again without the sender having been given its track
StopScreenShareStepKeep(s, i) ==
    Finish([s EXCEPT !.localStream = s.cameraStream,
                     !.screenStream = NoTrack,
                     !.isScreenSharing = FALSE], i)

\* stopScreenShare after await videoSender.replaceTrack(cameraVideoTrack)
StopScreenShareStep(s, i) ==
    LET p == s.procs[i] IN
    Finish([s EXCEPT !.senders[p.idx].track = p.data,
                     !.localStream = s.cameraStream,
                     !.screenStream = NoTrack,
                     !.isScreenSharing = FALSE], i)

\* screenTrack.onended = () => { stopScreenShare() }
ScreenTrackEnded(s, track) ==
    StopScreenShare([s EXCEPT !.stopped = @ \cup {track}])

\* ------------------------------------------- the transport's state handlers
maxReconnectAttempts == 3

\* a delay that grows by a second with each attempt
ReconnectDelayLinear(attempt) == Min(1000 * attempt, 5000)

\* Math.min(1000 * Math.pow(2, reconnectAttempts.current - 1), 5000)
ReconnectDelay(attempt) == Min(1000 * Pow2(attempt - 1), 5000)

\* a timer armed while an awaited transport operation is outstanding is young:
\* the operation settles within milliseconds, the shortest timer runs a second
Settling(s) ==
    {i \in 1..Len(s.procs) : s.procs[i].pos \notin {"getUserMedia", "getDisplayMedia"}}

\* ref.current = setTimeout(callback, delay): the handle the ref held is
\* overwritten, and a timer it named stays pending
Arm(s, ref, kind, delay) ==
    LET held == [i \in 1..Len(s.timers) |->
                    IF s.timers[i].ref = ref THEN [s.timers[i] EXCEPT !.ref = "none"]
                    ELSE s.timers[i]]
        t == Timer(kind, s.peerConnection, delay, Settling(s) # {}, ref)
    IN  SetRef([s EXCEPT !.timers = Append(held, t)], ref, "pending")

OnConnected(s) ==
    LET s1 == [s EXCEPT !.reconnectAttempts = 0, !.failedRun = 0] IN
    IF s1.reconnectTimeout # NoTimer
    THEN ClearTimeout(s1, "reconnectTimeout")
    ELSE s1

\* a failed transport counted without regard to maxReconnectAttempts
OnFailedUncapped(s) ==
    LET s1 == [s EXCEPT !.failedRun = Min(@ + 1, maxReconnectAttempts + 1)]
        n == s1.reconnectAttempts + 1
    IN  Arm([s1 EXCEPT !.reconnectAttempts = n], "reconnectTimeout", "backoff",
            ReconnectDelay(n))

OnFailed(s) ==
    LET s1 == [s EXCEPT !.failedRun = Min(@ + 1, maxReconnectAttempts + 1)] IN
    IF s1.reconnectAttempts < maxReconnectAttempts
    THEN LET n == s1.reconnectAttempts + 1 IN
         Arm([s1 EXCEPT !.reconnectAttempts = n], "reconnectTimeout", "backoff",
             ReconnectDelay(n))
    ELSE s1

OnDisconnected(s) ==
    LET s1 == IF s.reconnectTimeout = NoTimer
              THEN Arm(s, "reconnectTimeout", "iceRestart", 3000)
              ELSE s
    IN  IF s1.disconnectTimeout = NoTimer
        THEN Arm(s1, "disconnectTimeout", "evict", 10000)
        ELSE s1

\* an eviction timer that a restored connection leaves running
OnRestoredKeep(s) == s

OnRestored(s) ==
    IF s.disconnectTimeout # NoTimer
    THEN ClearTimeout(s, "disconnectTimeout")
    ELSE s

\* the quality-monitoring effect: the interval runs while the published
\* connection state is connected
QualityEffect(s) == [s EXCEPT !.statsInterval = (s.connectionState = "connected")]

\* pc.onconnectionstatechange, the transport now reporting state st
OnConnectionStateChange(s, st) ==
    LET s1 == [s EXCEPT !.pcConnectionState = st, !.connectionState = st]
        s2 == IF st = "connected" THEN OnConnected(s1) ELSE s1
        s3 == IF st = "failed" THEN OnFailed(s2) ELSE s2
        s4 == IF st = "disconnected" THEN OnDisconnected(s3) ELSE s3
        s5 == IF st = "connected" THEN OnRestored(s4) ELSE s4
    IN  QualityEffect(s5)

\* pc.oniceconnectionstatechange, the transport now reporting ICE state st
OnIceConnectionStateChange(s, st) ==
    LET s1 == [s EXCEPT !.pcIceState = st, !.iceConnectionState = st] IN
    IF st \in {"connected", "completed"}
    THEN [s1 EXCEPT !.reconnectAttempts = 0, !.failedRun = 0]
    ELSE s1

\* pc.ontrack
OnTrack(s) == [s EXCEPT !.remoteStream = TRUE]

\* pc.onicecandidate with a candidate: sent if channel.current, dropped if not
OnIceCandidate(s, self) ==
    Send([s EXCEPT !.gathered = @ + 1], "ice-candidate", self, s.gathered + 1)

\* pc.onnegotiationneeded: logs, creates no offer
OnNegotiationNeeded(s) == [s EXCEPT !.negotiationFired = TRUE]

\* the signaling effect runs again when a handler it depends on has changed,
\* which each does with localStream: its cleanup removes the channel and sets
\* channel.current to null, and the new channel is not there until SUBSCRIBED
SignalingEffect(s) == [s EXCEPT !.channel = FALSE, !.effectStream = s.localStream]

\* the callbacks given to setTimeout; each holds the transport it was armed for
TimerFired(s, i) ==
    LET t == s.timers[i]
        s0 == [s EXCEPT !.timers = RemoveAt(@, i)]
        s1 == IF t.ref = "none" THEN s0 ELSE SetRef(s0, t.ref, "expired")
        live == t.pc = s1.peerConnection
        down == live /\ s1.pcConnectionState \in {"disconnected", "failed"}
    IN  CASE t.kind = "backoff" ->
                IF live THEN [s1 EXCEPT !.iceRestart = TRUE] ELSE s1
          [] t.kind = "iceRestart" ->
                IF down THEN [s1 EXCEPT !.iceRestart = TRUE] ELSE s1
          [] t.kind = "evict" ->
                IF down THEN [s1 EXCEPT !.remoteStream = FALSE, !.remotePeerId = "null"]
                ELSE s1

\* ------------------------------------------------------------------- cleanup
\* stream.getTracks().forEach((track) => track.stop())
StopTracks(s, stream) ==
    [s EXCEPT !.stopped = @ \cup ({stream.video, stream.audio} \ {NoTrack})]

\* a teardown that leaves the transport open
CleanupKeep(s) ==
    LET s1 == IF s.reconnectTimeout # NoTimer
              THEN ClearTimeout(s, "reconnectTimeout")
              ELSE s
        s2 == [s1 EXCEPT !.reconnectAttempts = 0, !.statsInterval = FALSE]
        s3 == IF s2.screenStream # NoTrack
              THEN [s2 EXCEPT !.stopped = @ \cup {s2.screenStream},
                              !.screenStream = NoTrack]
              ELSE s2
        s4 == IF s3.cameraStream # NoStream
              THEN [StopTracks(s3, s3.cameraStream) EXCEPT !.cameraStream = NoStream]
              ELSE s3
        s5 == IF s4.localStream # NoStream THEN StopTracks(s4, s4.localStream) ELSE s4
        s6 == IF s5.peerConnection # NoPc
              THEN [ClosePeerConnection(s5) EXCEPT !.openPcs = s5.openPcs]
              ELSE s5
    IN  QualityEffect([s6 EXCEPT !.channel = FALSE,
                                 !.remoteStream = FALSE,
                                 !.localStream = NoStream,
                                 !.connectionState = "closed",
                                 !.iceConnectionState = "closed"])

\* cleanup: the refs and state it assigns, in its order; it leaves
\* disconnectTimeout, pendingCandidates, remotePeerId, makingOffer, ignoreOffer
\* and isScreenSharing as they are
Cleanup(s) ==
    LET s1 == IF s.reconnectTimeout # NoTimer
              THEN ClearTimeout(s, "reconnectTimeout")
              ELSE s
        s2 == [s1 EXCEPT !.reconnectAttempts = 0, !.statsInterval = FALSE]
        s3 == IF s2.screenStream # NoTrack
              THEN [s2 EXCEPT !.stopped = @ \cup {s2.screenStream},
                              !.screenStream = NoTrack]
              ELSE s2
        s4 == IF s3.cameraStream # NoStream
              THEN [StopTracks(s3, s3.cameraStream) EXCEPT !.cameraStream = NoStream]
              ELSE s3
        s5 == IF s4.localStream # NoStream THEN StopTracks(s4, s4.localStream) ELSE s4
        s6 == IF s5.peerConnection # NoPc THEN ClosePeerConnection(s5) ELSE s5
    IN  QualityEffect([s6 EXCEPT !.channel = FALSE,
                                 !.remoteStream = FALSE,
                                 !.localStream = NoStream,
                                 !.connectionState = "closed",
                                 !.iceConnectionState = "closed"])

\* ------------------------------------------------- monitorConnectionQuality
\* the first threshold met as well as exceeded
QualityAtLeast(bitrate, packetLoss, rtt, iceState) ==
    IF iceState = "checking" \/ iceState = "new" THEN "connecting"
    ELSE IF bitrate >= 1000 /\ packetLoss < 1 /\ rtt < 150 THEN "excellent"
    ELSE IF bitrate > 500 /\ packetLoss < 3 /\ rtt < 200 THEN "good"
    ELSE IF bitrate > 300 /\ packetLoss < 5 /\ rtt < 300 THEN "fair"
    ELSE "poor"

Quality(bitrate, packetLoss, rtt, iceState) ==
    IF iceState = "checking" \/ iceState = "new" THEN "connecting"
    ELSE IF bitrate > 1000 /\ packetLoss < 1 /\ rtt < 150 THEN "excellent"
    ELSE IF bitrate > 500 /\ packetLoss < 3 /\ rtt < 200 THEN "good"
    ELSE IF bitrate > 300 /\ packetLoss < 5 /\ rtt < 300 THEN "fair"
    ELSE "poor"

\* monitorConnectionQuality up to await pc.getStats(); the callback holds the
\* ICE state published when it was made
MonitorConnectionQuality(s) ==
    IF s.peerConnection = NoPc THEN s
    ELSE Spawn(s, Proc("monitorConnectionQuality", "getStats", s.peerConnection,
                       s.iceConnectionState))

\* monitorConnectionQuality after await pc.getStats()
MonitorConnectionQualityStep(s, i, stats) ==
    Finish([s EXCEPT !.connectionQuality =
                [bitrate |-> stats.bitrate, packetLoss |-> stats.packetLoss,
                 rtt |-> stats.rtt,
                 quality |-> Quality(stats.bitrate, stats.packetLoss, stats.rtt,
                                     s.procs[i].data)]], i)

\* --------------------------------------------------------------- the network
\* a broadcast reaches every other client that is subscribed when it is sent
Broadcast(box, self, msgs) ==
    [o \in Clients |->
        IF o # self /\ session[o].channel THEN box[o] \o msgs ELSE box[o]]

\* the step's result becomes the client's state, within the bounds of the model
Commit(c, s, box) ==
    /\ s.pcCount <= MaxPc
    /\ s.trackCount <= MaxTracks
    /\ Len(s.received) <= MaxCand
    /\ Len(s.procs) <= MaxProcs
    /\ Len(s.timers) <= MaxTimers
    /\ \A o \in Clients : Len(Broadcast(box, c, s.out)[o]) <= MaxInbox
    /\ session' = [session EXCEPT ![c] =
            [s EXCEPT !.out = << >>,
                      !.sent = IF s.logging
                               THEN @ \cup {[type |-> s.out[k].type,
                                             pc |-> s.peerConnection,
                                             data |-> s.out[k].data] : k \in 1..Len(s.out)}
                               ELSE @,
                      !.timers = IF Settling(s) = {}
                                 THEN [i \in 1..Len(s.timers) |->
                                          [s.timers[i] EXCEPT !.young = FALSE]]
                                 ELSE @]]
    /\ inbox' = Broadcast(box, c, s.out)

Running(c, op) == \E i \in 1..Len(session[c].procs) : session[c].procs[i].op = op

\* ------------------------------------------------------------------- actions
\* .subscribe((status) => { if (status === 'SUBSCRIBED') channel.current = ... })
Subscribed(c) ==
    /\ ~session[c].channel
    /\ Commit(c, [session[c] EXCEPT !.channel = TRUE], inbox)

\* startLocalStream up to await requestMediaDevicesMobile()
StartLocalStream(c) ==
    /\ ~Running(c, "startLocalStream")
    /\ Commit(c, Spawn(session[c], Proc("startLocalStream", "getUserMedia", NoPc, 0)), inbox)

\* the user joins the call from the waiting room
Join(c) ==
    /\ session[c].localStream = NoStream
    /\ StartLocalStream(c)

\* a broadcast of the room reaches the client's handler
Deliver(c) ==
    /\ session[c].channel
    /\ inbox[c] # << >>
    /\ Commit(c, OnSignal(session[c], c, Head(inbox[c])),
              [inbox EXCEPT ![c] = Tail(@)])

\* a broadcast of a participant the model does not run reaches the handler
RemoteSignal(c, m) ==
    /\ session[c].channel
    /\ m.type = "ice-candidate" => m.data.n = Len(session[c].received) + 1
    /\ m.type = "answer" => m.data \in 1..session[c].pcCount
    /\ Commit(c, OnSignal(session[c], c, m), inbox)

\* the awaited operation settles and the function runs to its next await
Resumable(c, i, op) ==
    /\ i \in 1..Len(session[c].procs)
    /\ session[c].procs[i].op = op

ResumeStartLocalStream(c, i, granted) ==
    /\ Resumable(c, i, "startLocalStream")
    /\ Commit(c, IF granted THEN StartLocalStreamStep(session[c], c, i)
                 ELSE Finish(session[c], i), inbox)

ResumeCreateOffer(c, i) ==
    /\ Resumable(c, i, "createOffer")
    /\ Commit(c, CreateOfferStep(session[c], c, i), inbox)

ResumeHandleOffer(c, i, rollback) ==
    /\ Resumable(c, i, "handleOffer")
    /\ Commit(c, HandleOfferStep(session[c], c, i, rollback), inbox)

ResumeHandleAnswer(c, i) ==
    /\ Resumable(c, i, "handleAnswer")
    /\ Commit(c, HandleAnswerStep(session[c], i), inbox)

ResumeStartScreenShare(c, i, granted) ==
    /\ Resumable(c, i, "startScreenShare")
    /\ Commit(c, StartScreenShareStep(session[c], i, granted), inbox)

ResumeStopScreenShare(c, i) ==
    /\ Resumable(c, i, "stopScreenShare")
    /\ Commit(c, StopScreenShareStep(session[c], i), inbox)

ResumeMonitor(c, i, stats) ==
    /\ Resumable(c, i, "monitorConnectionQuality")
    /\ Commit(c, MonitorConnectionQualityStep(session[c], i, stats), inbox)

\* the transport reports a connection state
ConnectionStateChange(c, st) ==
    LET s == session[c] IN
    /\ s.peerConnection # NoPc
    /\ st # s.pcConnectionState
    /\ s.localDescription # "none" \/ s.remoteDescription # "none"
    /\ s.pcConnectionState = "new" => st = "connecting"
    /\ st = "connected" => s.localDescription # "none" /\ s.remoteDescription # "none"
    /\ Commit(c, OnConnectionStateChange(s, st), inbox)

\* the transport reports an ICE connection state
IceConnectionStateChange(c, st) ==
    LET s == session[c] IN
    /\ s.peerConnection # NoPc
    /\ st # s.pcIceState
    /\ s.localDescription # "none" \/ s.remoteDescription # "none"
    /\ s.pcIceState = "new" => st = "checking"
    /\ st \in {"connected", "completed"} =>
            s.localDescription # "none" /\ s.remoteDescription # "none"
    /\ Commit(c, OnIceConnectionStateChange(s, st), inbox)

\* the transport delivers a remote track
Track(c) ==
    /\ session[c].peerConnection # NoPc
    /\ session[c].remoteDescription # "none"
    /\ ~session[c].remoteStream
    /\ Commit(c, OnTrack(session[c]), inbox)

\* a timer expires
TimerFire(c, i) ==
    /\ i \in 1..Len(session[c].timers)
    /\ ~session[c].timers[i].young
    /\ Commit(c, TimerFired(session[c], i), inbox)

\* the user's controls
UserToggleAudio(c) ==
    /\ session[c].localStream # NoStream
    /\ Commit(c, ToggleAudio(session[c]), inbox)

UserToggleVideo(c) ==
    /\ session[c].localStream # NoStream
    /\ Commit(c, ToggleVideo(session[c]), inbox)

UserStartScreenShare(c) ==
    /\ session[c].peerConnection # NoPc /\ session[c].cameraStream # NoStream
    /\ Commit(c, StartScreenShare(session[c]), inbox)

UserStopScreenShare(c) ==
    /\ session[c].peerConnection # NoPc /\ session[c].cameraStream # NoStream
    /\ Commit(c, StopScreenShare(session[c]), inbox)

\* the user ends a capture from the browser's own controls
ScreenEnded(c, track) ==
    /\ track \in session[c].screens \ session[c].stopped
    /\ Commit(c, ScreenTrackEnded(session[c], track), inbox)

\* the join button pressed again before the first request for the devices
\* has settled
JoinAgain(c) ==
    /\ session[c].localStream = NoStream
    /\ Running(c, "startLocalStream")
    /\ Commit(c, Spawn(session[c], Proc("startLocalStream", "getUserMedia", NoPc, 0)), inbox)

\* React runs the signaling effect again after localStream has changed
Resubscribe(c) ==
    /\ session[c].effectStream # session[c].localStream
    /\ Commit(c, SignalingEffect(session[c]), inbox)

\* the transport has gathered a local candidate
LocalCandidate(c) ==
    /\ session[c].peerConnection # NoPc
    /\ session[c].localDescription # "none"
    /\ session[c].gathered < MaxCand
    /\ Commit(c, OnIceCandidate(session[c], c), inbox)

\* the transport fires negotiationneeded: an ICE restart was requested and the
\* signaling state is stable
NegotiationNeeded(c) ==
    /\ session[c].peerConnection # NoPc
    /\ session[c].iceRestart
    /\ ~session[c].negotiationFired
    /\ session[c].signalingState = "stable"
    /\ Commit(c, OnNegotiationNeeded(session[c]), inbox)

\* the user ends the call from the call screen, which is shown once
\* startLocalStream has set the local stream
EndCall(c) ==
    /\ session[c].localStream # NoStream
    /\ Commit(c, Cleanup(session[c]), inbox)

\* the sampling interval ticks
QualityTick(c) ==
    /\ session[c].statsInterval
    /\ ~Running(c, "monitorConnectionQuality")
    /\ Commit(c, MonitorConnectionQuality(session[c]), inbox)

\* ------------------------------------------------------------ specifications
Init ==
    /\ session = [c \in Clients |-> InitSession]
    /\ inbox = [c \in Clients |-> << >>]

\* the same, the messages each client sends being logged
InitLogged ==
    /\ session = [c \in Clients |-> [InitSession EXCEPT !.logging = TRUE]]
    /\ inbox = [c \in Clients |-> << >>]

Self == "A"
Peer == "B"

Candidates == [n : 1..(MaxCand + 1), bad : BOOLEAN]

Ready(f) == Msg("ready", f, 0)
Offer(f) == Msg("offer", f, 1)
Answers(f) == {Msg("answer", f, pc) : pc \in 1..(MaxPc + 1)}
IceCandidates(f) == {Msg("ice-candidate", f, cand) : cand \in Candidates}

ConnectionStates == {"connecting", "connected", "disconnected", "failed"}
IceStates == {"checking", "connected", "failed"}

\* two clients of one room
NextPair ==
    \E c \in Clients :
        \/ Subscribed(c)
        \/ Join(c)
        \/ \E i \in 1..MaxProcs : ResumeStartLocalStream(c, i, TRUE)
        \/ Deliver(c)
        \/ \E i \in 1..MaxProcs : ResumeCreateOffer(c, i)
        \/ \E i \in 1..MaxProcs, rollback \in BOOLEAN : ResumeHandleOffer(c, i, rollback)
        \/ \E i \in 1..MaxProcs : ResumeHandleAnswer(c, i)

SpecPair == Init /\ [][NextPair]_vars

\* one client negotiating with a peer the model does not run: descriptions and
\* candidates
NextIce ==
    \/ Subscribed(Self)
    \/ Join(Self)
    \/ \E i \in 1..MaxProcs, granted \in BOOLEAN : ResumeStartLocalStream(Self, i, granted)
    \/ \E m \in {Ready(Peer), Offer(Peer)} \cup Answers(Peer) \cup IceCandidates(Peer) :
            RemoteSignal(Self, m)
    \/ \E i \in 1..MaxProcs : ResumeCreateOffer(Self, i)
    \/ \E i \in 1..MaxProcs, rollback \in BOOLEAN : ResumeHandleOffer(Self, i, rollback)
    \/ \E i \in 1..MaxProcs : ResumeHandleAnswer(Self, i)

SpecIce == Init /\ [][NextIce]_vars

\* one client and the state of its transport's connection; the peer offers
\* again only once its last offer has been answered or dropped
NextConn ==
    \/ Subscribed(Self)
    \/ Join(Self)
    \/ \E i \in 1..MaxProcs : ResumeStartLocalStream(Self, i, TRUE)
    \/ ~Running(Self, "handleOffer") /\ RemoteSignal(Self, Offer(Peer))
    \/ \E i \in 1..MaxProcs, rollback \in BOOLEAN : ResumeHandleOffer(Self, i, rollback)
    \/ \E st \in ConnectionStates : ConnectionStateChange(Self, st)
    \/ \E st \in IceStates : IceConnectionStateChange(Self, st)
    \/ \E i \in 1..MaxTimers : TimerFire(Self, i)

SpecConn == Init /\ [][NextConn]_vars

\* one client and the peers that come and go
NextPeer ==
    \/ Subscribed(Self)
    \/ Join(Self)
    \/ \E i \in 1..MaxProcs : ResumeStartLocalStream(Self, i, TRUE)
    \/ \E m \in {Ready(Peer), Offer(Peer), Ready(Stranger), Offer(Stranger)} :
            RemoteSignal(Self, m)
    \/ \E i \in 1..MaxProcs : ResumeCreateOffer(Self, i)
    \/ \E i \in 1..MaxProcs, rollback \in BOOLEAN : ResumeHandleOffer(Self, i, rollback)
    \/ \E st \in {"connecting", "disconnected"} : ConnectionStateChange(Self, st)
    \/ \E i \in 1..MaxTimers : TimerFire(Self, i)
    \/ Track(Self)

SpecPeer == Init /\ [][NextPeer]_vars

\* one client, its media and the user's controls
NextMedia ==
    \/ Subscribed(Self)
    \/ Join(Self)
    \/ \E i \in 1..MaxProcs, granted \in BOOLEAN : ResumeStartLocalStream(Self, i, granted)
    \/ RemoteSignal(Self, Ready(Peer))
    \/ \E i \in 1..MaxProcs : ResumeCreateOffer(Self, i)
    \/ UserToggleAudio(Self)
    \/ UserToggleVideo(Self)
    \/ UserStartScreenShare(Self)
    \/ \E i \in 1..MaxProcs, granted \in BOOLEAN : ResumeStartScreenShare(Self, i, granted)
    \/ UserStopScreenShare(Self)
    \/ \E i \in 1..MaxProcs : ResumeStopScreenShare(Self, i)
    \/ \E track \in 1..MaxTracks : ScreenEnded(Self, track)

SpecMedia == Init /\ [][NextMedia]_vars

\* what getStats reports, on and beside every threshold of the buckets
Stats == [bitrate : {300, 500, 1000, 1001}, packetLoss : {0, 1, 3, 5},
          rtt : {149, 150, 200, 300}]

\* one client that answers an offer, and the sampling of its connected transport
NextQuality ==
    \/ Subscribed(Self)
    \/ ~Running(Self, "handleOffer") /\ RemoteSignal(Self, Offer(Peer))
    \/ \E i \in 1..MaxProcs, rollback \in BOOLEAN : ResumeHandleOffer(Self, i, rollback)
    \/ \E st \in {"connecting", "connected"} : ConnectionStateChange(Self, st)
    \/ \E st \in {"checking", "connected"} : IceConnectionStateChange(Self, st)
    \/ QualityTick(Self)
    \/ \E i \in 1..MaxProcs, stats \in Stats : ResumeMonitor(Self, i, stats)

SpecQuality == Init /\ [][NextQuality]_vars

\* the candidates of a peer whose candidates are all well-formed
GoodCandidates(f) ==
    {Msg("ice-candidate", f, [n |-> n, bad |-> FALSE]) : n \in 1..(MaxCand + 1)}

\* one client through calls that end and start again, with the timers and the
\* candidates a call leaves behind
NextLife ==
    \/ Subscribed(Self)
    \/ Join(Self)
    \/ \E i \in 1..MaxProcs : ResumeStartLocalStream(Self, i, TRUE)
    \/ ~Running(Self, "handleOffer") /\ RemoteSignal(Self, Offer(Peer))
    \/ \E m \in GoodCandidates(Peer) : RemoteSignal(Self, m)
    \/ \E i \in 1..MaxProcs, rollback \in BOOLEAN : ResumeHandleOffer(Self, i, rollback)
    \/ \E st \in {"connecting", "disconnected"} : ConnectionStateChange(Self, st)
    \/ \E i \in 1..MaxTimers : TimerFire(Self, i)
    \/ EndCall(Self)

SpecLife == Init /\ [][NextLife]_vars

\* one client and every way it comes to a transport and parts with one
NextTransports ==
    \/ Subscribed(Self)
    \/ Join(Self)
    \/ \E i \in 1..MaxProcs : ResumeStartLocalStream(Self, i, TRUE)
    \/ \E m \in {Ready(Peer), Offer(Peer), Ready(Stranger)} : RemoteSignal(Self, m)
    \/ \E i \in 1..MaxProcs : ResumeCreateOffer(Self, i)
    \/ \E i \in 1..MaxProcs, rollback \in BOOLEAN : ResumeHandleOffer(Self, i, rollback)
    \/ EndCall(Self)

SpecTransports == Init /\ [][NextTransports]_vars

\* one client that answers an offer, the remote media it receives and the
\* states its transport goes through
NextEvict ==
    \/ Subscribed(Self)
    \/ ~Running(Self, "handleOffer") /\ RemoteSignal(Self, Offer(Peer))
    \/ \E i \in 1..MaxProcs, rollback \in BOOLEAN : ResumeHandleOffer(Self, i, rollback)
    \/ \E st \in ConnectionStates : ConnectionStateChange(Self, st)
    \/ \E i \in 1..MaxTimers : TimerFire(Self, i)
    \/ Track(Self)

SpecEvict == Init /\ [][NextEvict]_vars

\* what a peer and a stranger send that can reset the session, and a candidate
ResetSignals ==
    {Offer(Peer), Offer(Stranger), Ready(Peer)} \cup GoodCandidates(Peer)

\* one client in a call whose session is reset while its transport fails
NextReset ==
    \/ Subscribed(Self)
    \/ Join(Self)
    \/ \E i \in 1..MaxProcs : ResumeStartLocalStream(Self, i, TRUE)
    \/ \E m \in ResetSignals : ~Running(Self, "handleOffer") /\ RemoteSignal(Self, m)
    \/ \E i \in 1..MaxProcs : ResumeCreateOffer(Self, i)
    \/ \E i \in 1..MaxProcs, rollback \in BOOLEAN : ResumeHandleOffer(Self, i, rollback)
    \/ \E st \in {"connecting", "failed"} : ConnectionStateChange(Self, st)
    \/ \E i \in 1..MaxTimers : TimerFire(Self, i)
    \/ Track(Self)

SpecReset == Init /\ [][NextReset]_vars

\* one client that offers, and the answers and candidates that reach it, on
\* time, twice or late
NextAnswer ==
    \/ Subscribed(Self)
    \/ Join(Self)
    \/ \E i \in 1..MaxProcs : ResumeStartLocalStream(Self, i, TRUE)
    \/ \E m \in {Ready(Peer)} \cup Answers(Peer) \cup GoodCandidates(Peer) :
            RemoteSignal(Self, m)
    \/ \E i \in 1..MaxProcs : ResumeCreateOffer(Self, i)
    \/ \E i \in 1..MaxProcs : ResumeHandleAnswer(Self, i)

SpecAnswer == Init /\ [][NextAnswer]_vars

\* ================================================================ properties
\* ---------------------------------------------------------------------- C1
\* the room is quiet: nothing is in flight and no function is at an await
PairQuiet ==
    \A c \in Clients : inbox[c] = << >> /\ session[c].procs = << >>

\* C1: when both peers have applied their own offer before the other's
\* arrives, exactly one of the two offers is dropped (never both), and once
\* the room is quiet both peers are back in signaling state stable, the peer
\* that accepted an offer having answered it.
C1_GlareResolved ==
    /\ ~(\A c \in Clients : session[c].ignoreOffer)
    /\ (PairQuiet /\ \E c \in Clients : session[c].ignoreOffer) =>
            /\ \A c \in Clients : session[c].signalingState = "stable"
            /\ \E c \in Clients : session[c].localDescription = "answer"

\* ---------------------------------------------------------------------- C2
\* the candidate numbers of a sequence of candidates / of the well-formed ones
Numbers(q) == {q[i].n : i \in 1..Len(q)}
Good(q) == {q[i].n : i \in {j \in 1..Len(q) : ~q[j].bad}}

\* how often, and where first, candidate n was handed to the transport
Times(s, n) == Cardinality({i \in 1..Len(s.added) : s.added[i] = n})
Place(s, n) == CHOOSE i \in 1..Len(s.added) : s.added[i] = n

\* a remote description is applied and no function is still going through
\* the buffered candidates
Flushed(s) ==
    /\ s.remoteDescription # "none"
    /\ \A i \in 1..Len(s.procs) : s.procs[i].pos # "flush"

\* C2: once a remote description has been applied and the buffered candidates
\* have been gone through, pendingCandidates is empty and every candidate that
\* was buffered on this transport has been handed to it exactly once, in the
\* order of arrival, also when one of the buffered candidates was rejected.
C2_BufferedApplied ==
    LET s == session[Self] IN
    Flushed(s) =>
        /\ s.pendingCandidates = << >>
        /\ \A n \in Good(s.buffered) : Times(s, n) = 1
        /\ \A n, m \in Good(s.buffered) : n < m => Place(s, n) < Place(s, m)

\* ---------------------------------------------------------------------- C3
\* C3: a received candidate is never discarded: the step that receives it
\* either hands it to the transport or leaves it in pendingCandidates, and a
\* candidate leaves pendingCandidates only when it has been handed to the
\* transport, also while no transport exists and across a session reset.
C3_NeverDiscarded ==
    [][LET s == session[Self]
           t == session'[Self]
       IN  /\ Len(t.received) > Len(s.received) =>
                LET cand == t.received[Len(t.received)] IN
                \/ cand.n \in Numbers(t.pendingCandidates)
                \/ ~cand.bad /\ cand.n \in {t.added[i] : i \in 1..Len(t.added)}
                \/ cand.bad /\ t.remoteDescription # "none"
           /\ \A n \in Good(s.pendingCandidates) \ Numbers(t.pendingCandidates) :
                n \in {t.added[i] : i \in 1..Len(t.added)}]_vars

\* ---------------------------------------------------------------------- C9
\* C9: while createOffer is in progress makingOffer is set, and an offer that
\* arrives meanwhile is classified as a collision: handleOffer does not go on
\* to apply it.
C9_MakingOfferSet ==
    LET s == session[Self] IN
    \A i \in 1..Len(s.procs) :
        s.procs[i].op = "createOffer" =>
            /\ s.makingOffer
            /\ \A j \in (i + 1)..Len(s.procs) : s.procs[j].op # "handleOffer"

\* ---------------------------------------------------------------------- C4
\* the delays of the first, second and third attempt
BackoffDelays == <<1000, 2000, 4000>>

\* C4: when the transport reports failed for the k-th time in a row with no
\* connected report in between, k = 1, 2, 3, the step schedules exactly one
\* timer, an ICE restart after 1000, 2000, 4000 ms; a further failed report
\* schedules no timer and marks no ICE restart.
C4_Backoff ==
    [][LET s == session[Self]
           t == session'[Self]
       IN  (/\ t.peerConnection = s.peerConnection
            /\ s.pcConnectionState # "failed"
            /\ t.pcConnectionState = "failed") =>
               IF s.failedRun < maxReconnectAttempts
               THEN /\ Len(t.timers) = Len(s.timers) + 1
                    /\ t.timers[Len(t.timers)].kind = "backoff"
                    /\ t.timers[Len(t.timers)].delay = BackoffDelays[s.failedRun + 1]
                    /\ t.iceRestart = s.iceRestart
               ELSE /\ Len(t.timers) = Len(s.timers)
                    /\ \A i \in 1..Len(s.timers) :
                          t.timers[i].kind = s.timers[i].kind
                    /\ t.iceRestart = s.iceRestart]_vars

\* the transport has failed a fourth time in a row
C4_Witness ==
    /\ session[Self].pcConnectionState = "failed"
    /\ session[Self].failedRun > maxReconnectAttempts
    /\ session[Self].reconnectAttempts = maxReconnectAttempts

\* ---------------------------------------------------------------------- C6
\* C6: a message that is a second ready of the sender seen last, or a ready or
\* an offer of another sender, makes its handler reset the session exactly
\* once, and no message makes it reset more than once.
C6_ExactlyOneReset ==
    LET s == session[Self] IN
    /\ s.resets <= 1
    /\ s.resetDue => s.resets = 1

\* --------------------------------------------------------------------- C10
\* the createOffer calls in progress on the client's transport
OffersInProgress(s) == {i \in 1..Len(s.procs) : s.procs[i].op = "createOffer"}

\* C10: a step that starts createOffer starts it on a transport in signaling
\* state stable on which no other createOffer is in progress, and a step in
\* which createOffer applies its offer as the local description finds the
\* transport in signaling state stable.
C10_OfferOnStable ==
    [][LET s == session[Self]
           t == session'[Self]
           started == \/ Cardinality(OffersInProgress(t)) > Cardinality(OffersInProgress(s))
                      \/ /\ t.peerConnection # s.peerConnection
                         /\ OffersInProgress(t) # {}
           applied == /\ t.peerConnection = s.peerConnection
                      /\ Cardinality(OffersInProgress(t)) < Cardinality(OffersInProgress(s))
                      /\ t.localDescription = "offer"
                      /\ t.signalingState = "have-local-offer"
       IN  /\ started => /\ t.signalingState = "stable"
                         /\ Cardinality(OffersInProgress(t)) = 1
           /\ applied => s.signalingState = "stable"]_vars

\* a ready has reset the session and started createOffer on the new transport
C10_Witness ==
    /\ session[Self].resets = 1
    /\ OffersInProgress(session[Self]) # {}
    /\ session[Self].signalingState = "stable"

\* ---------------------------------------------------------------------- C5
\* no call of startScreenShare or stopScreenShare is at an await
ShareSettled(s) ==
    \A i \in 1..Len(s.procs) : s.procs[i].op \notin {"startScreenShare", "stopScreenShare"}

\* C5: with shareBase the tracks the video and the audio sender carried when
\* startScreenShare was called, the audio sender carries the same track ever
\* after, and once stopScreenShare has completed the video sender carries
\* the same camera track again.
C5_CameraRestored ==
    LET s == session[Self] IN
    (s.shareBase # NoStream /\ s.peerConnection # NoPc) =>
        /\ SenderTrack(s, "audio") = {s.shareBase.audio}
        /\ (ShareSettled(s) /\ ~s.isScreenSharing) =>
                SenderTrack(s, "video") = {s.shareBase.video}

\* a screen has been shared and the sharing stopped, the screen's track ended
C5_Witness ==
    LET s == session[Self] IN
    /\ s.shareBase # NoStream /\ s.peerConnection # NoPc
    /\ ShareSettled(s) /\ ~s.isScreenSharing
    /\ s.screens # {} /\ s.screens \subseteq s.stopped
    /\ SenderTrack(s, "video") = {s.cameraStream.video}

\* ---------------------------------------------------------------------- C7
\* the buckets in the order in which their rules are tried, and their rules
Buckets == <<"connecting", "excellent", "good", "fair", "poor">>

Rule(bucket, bitrate, packetLoss, rtt, iceState) ==
    CASE bucket = "connecting" -> iceState \in {"new", "checking"}
      [] bucket = "excellent" -> bitrate > 1000 /\ packetLoss < 1 /\ rtt < 150
      [] bucket = "good" -> bitrate > 500 /\ packetLoss < 3 /\ rtt < 200
      [] bucket = "fair" -> bitrate > 300 /\ packetLoss < 5 /\ rtt < 300
      [] bucket = "poor" -> TRUE

FirstMatch(bitrate, packetLoss, rtt, iceState) ==
    Buckets[CHOOSE k \in 1..Len(Buckets) :
                /\ Rule(Buckets[k], bitrate, packetLoss, rtt, iceState)
                /\ \A j \in 1..(k - 1) :
                      ~Rule(Buckets[j], bitrate, packetLoss, rtt, iceState)]

\* the calls of monitorConnectionQuality waiting for getStats
Sampling(s) == {i \in 1..Len(s.procs) : s.procs[i].op = "monitorConnectionQuality"}

\* C7: when monitorConnectionQuality completes, the bucket it publishes is
\* the bucket of the first rule, in the order connecting, excellent, good,
\* fair, poor, that the published bitrate, packet loss and round-trip time
\* and the ICE state the function was called with meet.
C7_FirstMatch ==
    [][LET s == session[Self]
           q == session'[Self].connectionQuality
       IN  \A i \in Sampling(s) :
              Sampling(session'[Self]) = {} =>
                  q.quality = FirstMatch(q.bitrate, q.packetLoss, q.rtt, s.procs[i].data)]_vars

\* a sample on the threshold of excellent has been published as good
C7_Witness ==
    LET q == session[Self].connectionQuality IN
    q.bitrate = 1000 /\ q.packetLoss = 0 /\ q.rtt = 149 /\ q.quality = "good"

\* ---------------------------------------------------------------------- C8
\* the tracks a session's senders carry
Carried(s) == [i \in 1..Len(s.senders) |-> s.senders[i].track]

\* C8: a step of toggleAudio or toggleVideo leaves the transport's senders
\* and the track each carries as they are, stops no track, and changes
\* nothing of the session but the enabled flag of the one local track.
C8_ToggleFrame ==
    [][(UserToggleAudio(Self) \/ UserToggleVideo(Self)) =>
          LET s == session[Self]
              t == session'[Self]
          IN  /\ Carried(t) = Carried(s)
              /\ t.stopped = s.stopped
              /\ [t EXCEPT !.enabled = s.enabled] = s
              /\ \E track \in {s.localStream.audio, s.localStream.video} :
                    t.enabled = Flip(s.enabled, track)]_vars

\* the camera has been switched off while the transport sends it
C8_Witness ==
    LET s == session[Self] IN
    /\ s.localStream # NoStream
    /\ s.localStream.video \notin s.enabled
    /\ s.localStream.video \in SenderTrack(s, "video")
    /\ s.localStream.video \notin s.stopped

\* --------------------------------------------------------------------- C11
\* C11: a step in which handleOffer finds a collision (ignoreOffer is set by
\* it) applies no remote description, changes neither the signaling state nor
\* the local description, leaves pendingCandidates and the candidates handed
\* to the transport as they are, starts no function (no answer, no new offer)
\* and sends nothing to the room.
C11_CollisionIgnored ==
    [][\A c \in Clients :
          (/\ Deliver(c)
           /\ Head(inbox[c]).type = "offer"
           /\ session'[c].ignoreOffer) =>
              LET s == session[c]
                  t == session'[c]
              IN  /\ t.signalingState = s.signalingState
                  /\ t.remoteDescription = s.remoteDescription
                  /\ t.localDescription = s.localDescription
                  /\ t.pendingCandidates = s.pendingCandidates
                  /\ t.added = s.added
                  /\ Len(t.procs) = Len(s.procs)
                  /\ \A i \in 1..Len(s.procs) :
                        t.procs[i].op = s.procs[i].op /\ t.procs[i].pos = s.procs[i].pos
                  /\ \A o \in Clients \ {c} : inbox'[o] = inbox[o]]_vars

\* an offer has been ignored by a client whose own offer is outstanding
C11_Witness ==
    \E c \in Clients :
        /\ session[c].ignoreOffer
        /\ session[c].signalingState = "have-local-offer"
        /\ session[c].remoteDescription = "none"

\* --------------------------------------------------------------------- C12
\* the calls of handleAnswer whose answer the transport has yet to apply
AnswersWaiting(s) ==
    {i \in 1..Len(s.procs) : s.procs[i].op = "handleAnswer" /\ s.procs[i].pos = "setRemote"}

\* C12: a step that receives an answer changes nothing of the transport, and
\* a step in which the transport settles an answer while no local offer is
\* outstanding leaves the signaling state, both descriptions, pendingCandidates
\* and the candidates handed to the transport as they are and ends the call of
\* handleAnswer there.
C12_LateAnswerNoOp ==
    [][LET s == session[Self]
           t == session'[Self]
           Same == /\ t.signalingState = s.signalingState
                   /\ t.remoteDescription = s.remoteDescription
                   /\ t.localDescription = s.localDescription
                   /\ t.pendingCandidates = s.pendingCandidates
                   /\ t.added = s.added
           settled == /\ t.peerConnection = s.peerConnection
                      /\ Cardinality(AnswersWaiting(t)) < Cardinality(AnswersWaiting(s))
       IN  /\ (\E m \in Answers(Peer) : RemoteSignal(Self, m)) => Same
           /\ (settled /\ s.signalingState # "have-local-offer") =>
                  Same /\ Len(t.procs) = Len(s.procs) - 1]_vars

\* a second answer has been dropped after the first was applied
C12_Witness ==
    LET s == session[Self] IN
    /\ s.answerDropped
    /\ s.signalingState = "stable"
    /\ s.remoteDescription = "answer"

\* --------------------------------------------------------------------- C13
\* C13: after the step in which the call is ended by cleanup no timer of the
\* session is pending: no ICE-restart, reconnect-backoff or eviction timer,
\* and the quality-sampling interval is cleared.
C13_CleanupCancelsTimers ==
    [][EndCall(Self) =>
          /\ session'[Self].timers = << >>
          /\ ~session'[Self].statsInterval]_vars

\* --------------------------------------------------------------------- C14
\* C14: after the step in which the call is ended by cleanup every track the
\* client acquired is stopped, no transport is referenced or open, the channel
\* is unsubscribed, pendingCandidates is empty and the published connection
\* state is closed.
C14_CleanupReleases ==
    [][EndCall(Self) =>
          LET t == session'[Self] IN
          /\ (1..t.trackCount) \subseteq t.stopped
          /\ t.peerConnection = NoPc
          /\ t.openPcs = {}
          /\ ~t.channel
          /\ t.pendingCandidates = << >>
          /\ t.connectionState = "closed"]_vars

\* --------------------------------------------------------------------- C15
\* C15: after the step in which the call is ended by cleanup remotePeerId is
\* null, so that the next call starts without a known peer.
C15_PeerForgotten ==
    [][EndCall(Self) => session'[Self].remotePeerId = "null"]_vars

\* --------------------------------------------------------------------- C20
\* C20: every transport the client has created and not closed is the one
\* peerConnection references.
C20_OneTransport ==
    session[Self].openPcs \subseteq {session[Self].peerConnection} \ {NoPc}

\* the client is on its second transport, the first one closed
C20_Witness ==
    LET s == session[Self] IN
    /\ s.pcCount >= 2
    /\ s.peerConnection = s.pcCount
    /\ s.openPcs = {s.peerConnection}

\* --------------------------------------------------------------------- C16
\* the pending timers of a purpose
Pending(s, kind) == {i \in 1..Len(s.timers) : s.timers[i].kind = kind}

\* C16: at most one ICE-restart timer, one reconnect-backoff timer and one
\* eviction timer is pending, and every pending timer is the one its ref
\* holds: none has been left running by a later setTimeout into the same ref.
C16_OneTimerPerPurpose ==
    LET s == session[Self] IN
    /\ \A kind \in {"iceRestart", "backoff", "evict"} : Cardinality(Pending(s, kind)) <= 1
    /\ \A i \in 1..Len(s.timers) : s.timers[i].ref # "none"

\* --------------------------------------------------------------------- C18
\* C18: after a step in which the transport reports connected no ICE-restart,
\* reconnect-backoff or eviction timer is pending, both timer refs are null
\* and reconnectAttempts is zero.
C18_ConnectedCancels ==
    [][LET s == session[Self]
           t == session'[Self]
       IN  (/\ t.peerConnection = s.peerConnection
            /\ s.pcConnectionState # "connected"
            /\ t.pcConnectionState = "connected") =>
               /\ t.timers = << >>
               /\ t.reconnectTimeout = NoTimer
               /\ t.disconnectTimeout = NoTimer
               /\ t.reconnectAttempts = 0]_vars

\* --------------------------------------------------------------------- C17
\* the transport is down: disconnected, or failed, and so not recovered
Down(s) == s.pcConnectionState \in {"disconnected", "failed"}

\* C17: a connected transport that reports disconnected has an eviction timer
\* pending afterwards; the step in which that timer expires discards the
\* remote stream and clears remotePeerId if the transport is down and leaves
\* both as they are otherwise; a step in which the transport reports connected
\* leaves no eviction timer pending and both as they are; and the remote
\* stream is discarded and remotePeerId cleared in no other step.
C17_EvictionOnExpiry ==
    [][LET s == session[Self]
           t == session'[Self]
           Kept == t.remoteStream = s.remoteStream /\ t.remotePeerId = s.remotePeerId
           expiry == \E i \in 1..MaxTimers :
                        /\ i <= Len(s.timers)
                        /\ s.timers[i].kind = "evict"
                        /\ TimerFire(Self, i)
       IN  /\ (s.pcConnectionState = "connected" /\ t.pcConnectionState = "disconnected") =>
                  Cardinality(Pending(t, "evict")) = 1
           /\ expiry => IF Down(s)
                        THEN ~t.remoteStream /\ t.remotePeerId = "null"
                        ELSE Kept
           /\ (s.pcConnectionState # "connected" /\ t.pcConnectionState = "connected") =>
                  Pending(t, "evict") = {} /\ Kept
           /\ ((s.remoteStream /\ ~t.remoteStream)
                \/ (s.remotePeerId # "null" /\ t.remotePeerId = "null")) =>
                  expiry /\ Down(s)]_vars

\* the peer's media has been evicted: the transport is still disconnected, the
\* eviction timer has expired and the peer once seen is forgotten
C17_Witness ==
    LET s == session[Self] IN
    /\ s.pcConnectionState = "disconnected"
    /\ s.disconnectTimeout = "expired"
    /\ s.seenPeer = Peer
    /\ s.remotePeerId = "null"
    /\ ~s.remoteStream

\* --------------------------------------------------------------------- C19
\* the tracks of a stream
Tracks(stream) == {stream.video, stream.audio} \ {NoTrack}

\* C19: a step in which a signal resets the session of a client that has
\* local media closes the transport it had and leaves it with a new transport
\* in signaling state stable whose senders carry exactly the tracks of the
\* local stream, with no remote stream, an empty pendingCandidates,
\* makingOffer and ignoreOffer false, reconnectAttempts zero and no timer
\* pending; the local and the camera stream are the ones it had, and no track
\* was acquired or stopped.
C19_ResetKeepsMedia ==
    [][LET s == session[Self]
           t == session'[Self]
       IN  (/\ \E m \in ResetSignals : RemoteSignal(Self, m)
            /\ t.resets > 0
            /\ s.localStream # NoStream) =>
               /\ s.peerConnection \notin t.openPcs
               /\ t.peerConnection \notin {NoPc, s.peerConnection}
               /\ t.signalingState = "stable"
               /\ SenderTrack(t, "video") \cup SenderTrack(t, "audio") = Tracks(t.localStream)
               /\ ~t.remoteStream
               /\ t.pendingCandidates = << >>
               /\ ~t.makingOffer /\ ~t.ignoreOffer
               /\ t.reconnectAttempts = 0
               /\ t.timers = << >>
               /\ t.reconnectTimeout = NoTimer /\ t.disconnectTimeout = NoTimer
               /\ t.localStream = s.localStream /\ t.cameraStream = s.cameraStream
               /\ t.trackCount = s.trackCount /\ t.stopped = s.stopped]_vars

\* the peer's answer to an offer the client has sent
AnswerArrives(c, m) ==
    /\ \E e \in session[c].sent : e.type = "offer" /\ e.data = m.data
    /\ RemoteSignal(c, m)

\* offers of a client whose peer announces itself more than once, and the
\* peer's answers to them in any order
NextLate ==
    \/ Subscribed(Self)
    \/ Join(Self)
    \/ \E i \in 1..MaxProcs : ResumeStartLocalStream(Self, i, TRUE)
    \/ RemoteSignal(Self, Ready(Peer))
    \/ \E i \in 1..MaxProcs : ResumeCreateOffer(Self, i)
    \/ \E m \in Answers(Peer) : AnswerArrives(Self, m)
    \/ \E i \in 1..MaxProcs : ResumeHandleAnswer(Self, i)

SpecLate == InitLogged /\ [][NextLate]_vars

\* offers of the peer, some arriving while an earlier one is being answered,
\* and candidates of the peer that arrive before and after them
NextAccept ==
    \/ Subscribed(Self)
    \/ \E m \in {Offer(Peer)} \cup GoodCandidates(Peer) : RemoteSignal(Self, m)
    \/ \E i \in 1..MaxProcs, rollback \in BOOLEAN : ResumeHandleOffer(Self, i, rollback)

SpecAccept == InitLogged /\ [][NextAccept]_vars

\* the same two clients, every message in flight delivered and every awaited
\* operation settled in the end
FairPair ==
    \A c \in Clients :
        /\ WF_vars(Subscribed(c))
        /\ WF_vars(\E i \in 1..MaxProcs : ResumeStartLocalStream(c, i, TRUE))
        /\ WF_vars(Deliver(c))
        /\ WF_vars(\E i \in 1..MaxProcs : ResumeCreateOffer(c, i))
        /\ WF_vars(\E i \in 1..MaxProcs, rollback \in BOOLEAN : ResumeHandleOffer(c, i, rollback))
        /\ WF_vars(\E i \in 1..MaxProcs : ResumeHandleAnswer(c, i))

SpecPairFair == SpecPair /\ FairPair

\* a client that offers after the peer's ready and is answered, its transport
\* losing the connection, the recovery timers and the transport's
\* negotiationneeded event
NextRestart ==
    \/ Subscribed(Self)
    \/ Join(Self)
    \/ \E i \in 1..MaxProcs : ResumeStartLocalStream(Self, i, TRUE)
    \/ \E m \in {Ready(Peer)} \cup Answers(Peer) :
            OffersInProgress(session[Self]) = {} /\ RemoteSignal(Self, m)
    \/ \E i \in 1..MaxProcs : ResumeCreateOffer(Self, i)
    \/ \E i \in 1..MaxProcs : ResumeHandleAnswer(Self, i)
    \/ \E st \in {"connecting", "disconnected", "failed"} : ConnectionStateChange(Self, st)
    \/ \E i \in 1..MaxTimers : TimerFire(Self, i)
    \/ NegotiationNeeded(Self)

SpecRestart == Init /\ [][NextRestart]_vars

\* timers expire, awaited operations settle and the transport fires the
\* events that are due; no message of the peer is owed
FairRestart ==
    /\ WF_vars(\E i \in 1..MaxProcs : ResumeStartLocalStream(Self, i, TRUE))
    /\ WF_vars(\E i \in 1..MaxProcs : ResumeCreateOffer(Self, i))
    /\ WF_vars(\E i \in 1..MaxProcs : ResumeHandleAnswer(Self, i))
    /\ WF_vars(\E i \in 1..MaxTimers : TimerFire(Self, i))
    /\ WF_vars(NegotiationNeeded(Self))

SpecRestartFair == SpecRestart /\ FairRestart

\* joins before and after the channel reports SUBSCRIBED, the signaling
\* effect running again after them, the peer's ready and the offers made
\* after it
NextJoin ==
    \/ Subscribed(Self)
    \/ Join(Self)
    \/ JoinAgain(Self)
    \/ \E i \in 1..MaxProcs, granted \in BOOLEAN : ResumeStartLocalStream(Self, i, granted)
    \/ Resubscribe(Self)
    \/ RemoteSignal(Self, Ready(Peer))
    \/ \E i \in 1..MaxProcs : ResumeCreateOffer(Self, i)

SpecJoin == InitLogged /\ [][NextJoin]_vars

\* the channel reports SUBSCRIBED and awaited operations settle
FairJoin ==
    /\ WF_vars(Subscribed(Self))
    /\ WF_vars(\E i \in 1..MaxProcs, granted \in BOOLEAN : ResumeStartLocalStream(Self, i, granted))
    /\ WF_vars(\E i \in 1..MaxProcs : ResumeCreateOffer(Self, i))

SpecJoinFair == SpecJoin /\ FairJoin

\* negotiation around the moments in which the channel is absent: the
\* signaling effect runs again after the join, the peer's ready and offer
\* arrive before that, and the transport gathers its candidates
NextAbsent ==
    \/ Subscribed(Self)
    \/ Join(Self)
    \/ \E i \in 1..MaxProcs : ResumeStartLocalStream(Self, i, TRUE)
    \/ Resubscribe(Self)
    \/ \E m \in {Ready(Peer), Offer(Peer)} : RemoteSignal(Self, m)
    \/ \E i \in 1..MaxProcs : ResumeCreateOffer(Self, i)
    \/ \E i \in 1..MaxProcs, rollback \in BOOLEAN : ResumeHandleOffer(Self, i, rollback)
    \/ LocalCandidate(Self)

SpecAbsent == InitLogged /\ [][NextAbsent]_vars

\* the local media over a call: joins, also pressed twice, negotiation in
\* both directions, resets by a repeated ready, the video toggled and the
\* screen shared and unshared
NextTracks ==
    \/ Subscribed(Self)
    \/ Join(Self)
    \/ JoinAgain(Self)
    \/ \E i \in 1..MaxProcs : ResumeStartLocalStream(Self, i, TRUE)
    \/ \E m \in {Ready(Peer), Offer(Peer)} : RemoteSignal(Self, m)
    \/ \E i \in 1..MaxProcs : ResumeCreateOffer(Self, i)
    \/ \E i \in 1..MaxProcs, rollback \in BOOLEAN : ResumeHandleOffer(Self, i, rollback)
    \/ UserToggleVideo(Self)
    \/ UserStartScreenShare(Self)
    \/ \E i \in 1..MaxProcs : ResumeStartScreenShare(Self, i, TRUE)
    \/ UserStopScreenShare(Self)
    \/ \E i \in 1..MaxProcs : ResumeStopScreenShare(Self, i)

SpecTracks == Init /\ [][NextTracks]_vars

\* a room with a third client: the client offers after the peer's ready, and
\* answers and candidates arrive from the peer and from the third client
NextStranger ==
    \/ Subscribed(Self)
    \/ Join(Self)
    \/ \E i \in 1..MaxProcs : ResumeStartLocalStream(Self, i, TRUE)
    \/ RemoteSignal(Self, Ready(Peer))
    \/ \E i \in 1..MaxProcs : ResumeCreateOffer(Self, i)
    \/ \E m \in Answers(Peer) \cup Answers(Stranger) : AnswerArrives(Self, m)
    \/ \E m \in GoodCandidates(Peer) \cup GoodCandidates(Stranger) : RemoteSignal(Self, m)
    \/ \E i \in 1..MaxProcs : ResumeHandleAnswer(Self, i)

SpecStranger == InitLogged /\ [][NextStranger]_vars

\* a client that answers the peer's offer and gets connected, and the peer
\* announcing itself again
NextStale ==
    \/ Subscribed(Self)
    \/ Join(Self)
    \/ \E i \in 1..MaxProcs : ResumeStartLocalStream(Self, i, TRUE)
    \/ \E m \in {Offer(Peer), Ready(Peer)} :
            ~Running(Self, "handleOffer") /\ RemoteSignal(Self, m)
    \/ \E i \in 1..MaxProcs, rollback \in BOOLEAN : ResumeHandleOffer(Self, i, rollback)
    \/ \E i \in 1..MaxProcs : ResumeCreateOffer(Self, i)
    \/ \E st \in {"connecting", "connected"} : ConnectionStateChange(Self, st)
    \/ QualityTick(Self)
    \/ \E i \in 1..MaxProcs : ResumeMonitor(Self, i, [bitrate |-> 300, packetLoss |-> 0, rtt |-> 50])

SpecStale == Init /\ [][NextStale]_vars

\* what a screen-share operation may change: the track the video sender
\* sends, the tracks running, whether the camera's video track is enabled,
\* the screen-share flag
ShareView(s) ==
    <<SenderTrack(s, "video"), (1..s.trackCount) \ s.stopped,
      s.cameraStream # NoStream /\ s.cameraStream.video \in s.enabled,
      s.isScreenSharing>>

\* startScreenShare and stopScreenShare run from call to return, the screen
\* picked and the track replaced
StartScreenShareRun(s) ==
    LET s1 == StartScreenShare(s)
        s2 == StartScreenShareStep(s1, Len(s1.procs), TRUE)
    IN  IF Len(s2.procs) = Len(s1.procs)
        THEN StartScreenShareStep(s2, Len(s2.procs), TRUE)
        ELSE s2

StopScreenShareRun(s) ==
    LET s1 == StopScreenShare(s)
    IN  IF Len(s1.procs) > Len(s.procs)
        THEN StopScreenShareStep(s1, Len(s1.procs))
        ELSE s1

\* no screen-share operation is in flight
ShareIdle(s) ==
    \A i \in 1..Len(s.procs) : s.procs[i].op \notin {"startScreenShare", "stopScreenShare"}

\* C22: in every state where the client has a transport and its camera and
\* no screen-share operation is in flight, startScreenShare called while
\* sharing, and stopScreenShare called while not sharing, return with the
\* outgoing video track, the tracks running, the enabled flag of the camera's
\* video track and the screen-share flag as they were.
C22_ShareIdempotent ==
    LET s == session[Self]
    IN  (s.peerConnection # NoPc /\ s.cameraStream # NoStream /\ ShareIdle(s)) =>
            IF s.isScreenSharing
            THEN ShareView(StartScreenShareRun(s)) = ShareView(s)
            ELSE ShareView(StopScreenShareRun(s)) = ShareView(s)

\* C23: the sampling interval runs only while the published connection state
\* is connected, and no step changes the published quality sample unless the
\* connection state is connected before and after it.
C23_SamplesOnlyConnected ==
    [][LET s == session[Self]
           t == session'[Self]
       IN  /\ t.statsInterval => t.connectionState = "connected"
           /\ t.connectionQuality # s.connectionQuality =>
                 s.connectionState = "connected" /\ t.connectionState = "connected"]_vars

\* the first half of C23 alone: the interval is cancelled with the state
C23_IntervalCancelled ==
    session[Self].statsInterval => session[Self].connectionState = "connected"

\* C30: a step of handleAnswer that applies an answer as the remote
\* description applies it to the transport whose offer the answer was made
\* for.
C30_AnswerForThisOffer ==
    [][LET s == session[Self]
           t == session'[Self]
       IN  \A i \in 1..MaxProcs :
              (/\ ResumeHandleAnswer(Self, i)
               /\ s.procs[i].pos = "setRemote"
               /\ s.signalingState = "have-local-offer"
               /\ t.remoteDescription = "answer") =>
                  s.procs[i].data = s.peerConnection]_vars

\* the continuations of handleOffer in flight
OffersAccepted(s) == {i \in 1..Len(s.procs) : s.procs[i].op = "handleOffer"}

ReadyFrom(c, other) ==
    /\ session[c].localStream # NoStream
    /\ session[c].channel
    /\ \/ session[c].seenPeer = other
       \/ \E k \in 1..Len(inbox[c]) : inbox[c][k].type = "ready" /\ inbox[c][k].from = other

\* both clients are in signaling state stable with a remote description
Negotiated ==
    \A c \in Clients :
        session[c].signalingState = "stable" /\ session[c].remoteDescription # "none"

\* C27: once both clients have their local media and each one's ready has
\* reached the other or is in flight to it, then, messages being delivered
\* and awaited operations settling, both clients are eventually in signaling
\* state stable with a remote description.
C27_NegotiationCompletes ==
    (ReadyFrom("A", "B") /\ ReadyFrom("B", "A")) ~> Negotiated

\* C28: once a recovery timer has called restartIce on the client's
\* transport and no offer is being created, then, timers expiring, operations
\* settling and the transport firing its events, an offer is eventually being
\* created on that transport, whether or not the peer sends anything.
C28_RestartRenegotiates ==
    (session[Self].iceRestart /\ OffersInProgress(session[Self]) = {})
        ~> (session[Self].iceRestart /\ OffersInProgress(session[Self]) # {})

\* the client has sent a ready
Announced(s) == \E e \in s.sent : e.type = "ready"

\* C25: a step that sends a ready leaves the client with a local stream
\* whose tracks the transport's senders carry, and once the client has its
\* local stream attached, then, the channel reporting SUBSCRIBED and awaited
\* operations settling, it has eventually sent a ready.
C25_ReadyAnnounced ==
    /\ [][LET s == session[Self]
              t == session'[Self]
          IN  (\E e \in t.sent \ s.sent : e.type = "ready") =>
                 /\ t.localStream # NoStream
                 /\ t.peerConnection # NoPc
                 /\ SenderTrack(t, "video") \cup SenderTrack(t, "audio")
                       = Tracks(t.localStream)]_vars
    /\ (session[Self].localStream # NoStream) ~> Announced(session[Self])

\* the first half of C25 alone
C25_NoReadyBeforeTracks ==
    Announced(session[Self]) => session[Self].localStream # NoStream

\* the client has sent a message of this type from its current transport
SentFrom(s, type) == \E e \in s.sent : e.type = type /\ e.pc = s.peerConnection

\* C24: a transport in signaling state have-local-offer has had its offer
\* sent, and a transport whose local description is an answer has had its
\* answer sent: no operation that found the channel absent has left the
\* transport in a state that takes its message as delivered.
C24_NoDesync ==
    LET s == session[Self]
    IN  s.peerConnection # NoPc =>
            /\ s.signalingState = "have-local-offer" => SentFrom(s, "offer")
            /\ s.localDescription = "answer" => SentFrom(s, "answer")

\* C26: whenever the channel is available every candidate the client's
\* transport has gathered has been sent.
C26_NoCandidateLost ==
    LET s == session[Self]
    IN  (s.peerConnection # NoPc /\ s.channel) =>
            \A n \in 1..s.gathered :
                \E e \in s.sent : /\ e.type = "ice-candidate"
                                  /\ e.pc = s.peerConnection
                                  /\ e.data = n

\* the senders of the transport that carry a track of this kind
Carrying(s, kind) ==
    {i \in 1..Len(s.senders) : s.senders[i].kind = kind /\ s.senders[i].track # NoTrack}

\* C21: whenever the client has a local stream and a transport, exactly one
\* sender of the transport carries a video track and exactly one carries an
\* audio track.
C21_OneVideoOneAudio ==
    LET s == session[Self]
    IN  (s.localStream # NoStream /\ s.peerConnection # NoPc) =>
            /\ Cardinality(Carrying(s, "video")) = 1
            /\ Cardinality(Carrying(s, "audio")) = 1

\* C33: reconnectAttempts is between 0 and maxReconnectAttempts in every
\* state, and a step that raises it is a step in which the transport reports
\* the connection state failed, and raises it by one.
C33_CounterBounded ==
    /\ [](session[Self].reconnectAttempts \in 0..maxReconnectAttempts)
    /\ [][LET s == session[Self]
              t == session'[Self]
          IN  t.reconnectAttempts > s.reconnectAttempts =>
                 /\ ConnectionStateChange(Self, "failed")
                 /\ t.reconnectAttempts = s.reconnectAttempts + 1]_vars

\* the transport has reported failed with the counter at its maximum
C33_Witness ==
    LET s == session[Self] IN
    /\ s.reconnectAttempts = maxReconnectAttempts
    /\ s.failedRun > maxReconnectAttempts
    /\ s.pcConnectionState = "failed"

\* C32: a step that receives an answer or a candidate while remotePeerId
\* names a peer that is not its sender leaves the remote description,
\* pendingCandidates and the candidates handed to the transport as they were
\* and starts no handleAnswer.
C32_OnlyTrackedPeer ==
    [][LET s == session[Self]
           t == session'[Self]
       IN  \A f \in {Peer, Stranger} :
              (/\ s.remotePeerId \notin {"null", f}
               /\ \E m \in Answers(f) \cup GoodCandidates(f) : RemoteSignal(Self, m)) =>
                  /\ t.remoteDescription = s.remoteDescription
                  /\ t.pendingCandidates = s.pendingCandidates
                  /\ t.added = s.added
                  /\ Cardinality(AnswersWaiting(t)) = Cardinality(AnswersWaiting(s))]_vars

\* C31: whenever the client has a transport, the connection state it
\* publishes is that transport's connection state, and the sampling interval
\* runs only if that transport is connected.
C31_PublishedIsCurrent ==
    LET s == session[Self]
    IN  s.peerConnection # NoPc =>
            /\ s.connectionState = s.pcConnectionState
            /\ s.statsInterval => s.pcConnectionState = "connected"

\* the replaced transport is new while "connected" is still published and
\* the sampling interval still runs
C31_StaleConnected ==
    LET s == session[Self]
    IN  /\ s.peerConnection # NoPc
        /\ s.pcConnectionState = "new"
        /\ s.connectionState = "connected"
        /\ s.statsInterval

====
